---- MODULE Spec2Model ----
(***************************************************************************)
(* API key store, authentication dependencies and the per-key sliding      *)
(* window of src/auth.py, with the two key-aware routes of src/main.py.    *)
(* Time is counted in whole seconds of the wall clock.                     *)
(***************************************************************************)
EXTENDS Integers, Sequences, FiniteSets, TLC

(* ------------------------------ bounds -------------------------------- *)
MaxIssues == 2
MaxGateCalls == 1
MaxCalls == 4
MaxLimit == 2
MaxHandlers == 3

(* --------------------------- program constants ------------------------ *)
WindowSeconds == 60

DemoFreeKey == "demo-free-key-2026"
DemoProKey == "demo-pro-key-2026"

\* The values secrets.token_urlsafe(32) may return (two stand for the 2^256).
Tokens == {"A", "B"}

\* Owner names and tier names handed to create_api_key.
Names == {"alice", "bob"}
TierNames == {"free", "starter", "pro", "enterprise", "demo-free", "demo-pro", "gold"}

None == [none |-> TRUE]

\* A value of the X-API-Key header: absent, or a string (possibly empty).
Absent == [present |-> FALSE, value |-> ""]
Given(s) == [present |-> TRUE, value |-> s]

VARIABLES
    now,             \* the latest reading of the wall clock (time.time(), utcnow())
    API_KEYS,        \* auth.API_KEYS: secret -> key_data
    DEMO_KEYS,       \* auth.DEMO_KEYS: secret -> key_data
    REQUEST_COUNTS,  \* auth.REQUEST_COUNTS: key -> list of timestamps
    issued,          \* history: secret -> the value create_api_key last returned for it
    nIssued,         \* history: the number of create_api_key calls
    limitAtCreation, \* history: secret -> the rate_limit its first record was given
    calls,           \* history: the check_rate_limit calls, in order
    last,            \* the most recent call: its argument, its outcome and the
                     \* REQUEST_COUNTS it started from
    limit,           \* the limit each key is checked with (an input, fixed at start)
    pc,              \* concurrent scenario: each handler's position
    running          \* concurrent scenario: the handler the event loop runs

vars == <<now, API_KEYS, DEMO_KEYS, REQUEST_COUNTS, issued, nIssued,
          limitAtCreation, calls, last,
          limit, pc, running>>

(* ------------------------------ key store ----------------------------- *)
\* auth.py:18-31
DemoKeysAtImport(t) ==
    (DemoFreeKey :> [name |-> "Demo Free User", tier |-> "free",
                     rate_limit |-> 10, created |-> t])
    @@ (DemoProKey :> [name |-> "Demo Pro User", tier |-> "pro",
                       rate_limit |-> 100, created |-> t])

\* auth.py:37-39
generate_api_key(token) == "ngcm_" \o token

\* auth.py:46-51
rate_limits ==
    ("free" :> 10) @@ ("starter" :> 60) @@ ("pro" :> 300) @@ ("enterprise" :> 1000)

RateLimitForNoDefault(tier) ==
    IF tier \in DOMAIN rate_limits THEN rate_limits[tier] ELSE 0

\* auth.py:56, rate_limits.get(tier, 10)
RateLimitFor(tier) ==
    IF tier \in DOMAIN rate_limits THEN rate_limits[tier] ELSE 10

\* auth.py:53-60
KeyData(name, tier, t) ==
    [name |-> name, tier |-> tier, rate_limit |-> RateLimitFor(tier),
     created |-> t, requests_today |-> 0, last_request |-> None]

\* auth.py:64-67
IssueResult(key, data) ==
    [api_key |-> key, name |-> data.name, tier |-> data.tier,
     rate_limit |-> data.rate_limit, created |-> data.created,
     requests_today |-> data.requests_today, last_request |-> data.last_request]

Put(map, k, v) == [x \in DOMAIN map \cup {k} |-> IF x = k THEN v ELSE map[x]]

GetKeyInfoIssuedOnly(api_key) ==
    IF api_key \in DOMAIN API_KEYS THEN API_KEYS[api_key] ELSE None

\* auth.py:70-80
get_key_info(api_key) ==
    IF api_key \in DOMAIN DEMO_KEYS THEN DEMO_KEYS[api_key]
    ELSE IF api_key \in DOMAIN API_KEYS THEN API_KEYS[api_key]
    ELSE None

\* Python truthiness of the header value: None and "" are falsy.
Falsy(api_key) == ~api_key.present \/ api_key.value = ""

Ok(info) == [status |-> "ok", info |-> info]
Anonymous == [status |-> "anonymous", info |-> None]
MissingKey == [status |-> "MissingKey", info |-> None]
InvalidKey == [status |-> "InvalidKey", info |-> None]

VerifyNeverRejects(api_key) ==
    IF Falsy(api_key) THEN Anonymous
    ELSE IF get_key_info(api_key.value) = None THEN Anonymous
    ELSE Ok(get_key_info(api_key.value))

\* auth.py:83-103
verify_api_key(api_key) ==
    IF Falsy(api_key) THEN Anonymous
    ELSE IF get_key_info(api_key.value) = None THEN InvalidKey
    ELSE Ok(get_key_info(api_key.value))

RequireAcceptsUnknown(api_key) ==
    IF Falsy(api_key) THEN MissingKey
    ELSE Ok(get_key_info(api_key.value))

\* auth.py:106-126
require_api_key(api_key) ==
    IF Falsy(api_key) THEN MissingKey
    ELSE IF get_key_info(api_key.value) = None THEN InvalidKey
    ELSE Ok(get_key_info(api_key.value))

(* ------------------------------ rate limiter -------------------------- *)
\* The keys check_rate_limit is called with, and the limits passed to it.
RLKeys == {DemoFreeKey, "ngcm_A"}
Limits == 0..MaxLimit
\* Seconds the clock may have moved on since its previous reading.
ClockGaps == {0, 1, 59, 60}
IssueGaps == {0, 1}
GateGaps == {0}

\* auth.py:138-139
WindowOf(counts, api_key) ==
    IF api_key \in DOMAIN counts THEN counts[api_key] ELSE <<>>

FreshInclusive(ts, t) == SelectSeq(ts, LAMBDA x : x >= t - WindowSeconds)

FreshKeepsAll(ts, t) == ts

\* auth.py:136,142: [t for t in ... if t > minute_ago]
Fresh(ts, t) == SelectSeq(ts, LAMBDA x : x > t - WindowSeconds)

OverLimitOffByOne(ts, lim) == Len(ts) > lim

\* auth.py:145: len(REQUEST_COUNTS[api_key]) >= limit
OverLimit(ts, lim) == Len(ts) >= lim

CheckResultBeforeClean(counts, api_key, lim, t) ==
    ~OverLimit(WindowOf(counts, api_key), lim)

\* auth.py:132-150, the whole call at clock reading t
CheckResult(counts, api_key, lim, t) ==
    ~OverLimit(Fresh(WindowOf(counts, api_key), t), lim)

CheckCountsAlwaysRecord(counts, api_key, lim, t) ==
    Put(counts, api_key, Append(Fresh(WindowOf(counts, api_key), t), t))

\* auth.py:138-149, the list the call leaves in REQUEST_COUNTS[api_key]
CheckCounts(counts, api_key, lim, t) ==
    LET fresh == Fresh(WindowOf(counts, api_key), t)
    IN  Put(counts, api_key, IF OverLimit(fresh, lim) THEN fresh ELSE Append(fresh, t))

(* ------------------------------- actions ------------------------------ *)
\* The record of a call for `last`.
Called(op, arg, auth, http) ==
    [op |-> op, arg |-> arg, auth |-> auth, http |-> http, before |-> REQUEST_COUNTS]

KeyFrame == UNCHANGED <<API_KEYS, DEMO_KEYS, issued, nIssued, limitAtCreation>>
ConcFrame == UNCHANGED <<limit, pc, running>>

\* auth.py:42-67 create_api_key(name, tier); utcnow() reads the clock
create_api_key(name, tier, gaps) ==
    /\ nIssued < MaxIssues
    /\ \E token \in Tokens, d \in gaps :
         LET key == generate_api_key(token)
             data == KeyData(name, tier, now + d)
         IN  /\ now' = now + d
             /\ API_KEYS' = Put(API_KEYS, key, data)
             /\ issued' = Put(issued, key, IssueResult(key, data))
             /\ limitAtCreation' =
                  IF key \in DOMAIN API_KEYS THEN limitAtCreation
                  ELSE Put(limitAtCreation, key, data.rate_limit)
             /\ last' = Called("create_api_key", Given(key), Ok(IssueResult(key, data)), 0)
    /\ nIssued' = nIssued + 1
    /\ UNCHANGED <<DEMO_KEYS, REQUEST_COUNTS, calls>>
    /\ ConcFrame

Issue == \E name \in Names, tier \in TierNames : create_api_key(name, tier, IssueGaps)

\* Issuance at a paid tier and at a tier the table does not hold, the clock
\* standing still.
SomeTiers == {"starter", "gold"}
IssueSome == \E name \in Names, tier \in SomeTiers : create_api_key(name, tier, GateGaps)

\* main.py:106-121 POST /api/register
RegisterApiKey == \E name \in Names : create_api_key(name, "free", GateGaps)

\* auth.py:132-150 check_rate_limit(api_key, limit), run to completion;
\* time.time() reads the clock, d seconds after its previous reading
CheckRateLimit(maxCalls, gaps) ==
    /\ Len(calls) < maxCalls
    /\ \E api_key \in RLKeys, d \in gaps :
         LET t == now + d
             lim == limit[api_key]
         IN  /\ now' = t
             /\ REQUEST_COUNTS' = CheckCounts(REQUEST_COUNTS, api_key, lim, t)
             /\ calls' = Append(calls, [key |-> api_key, limit |-> lim, t |-> t,
                                        ok |-> CheckResult(REQUEST_COUNTS, api_key, lim, t)])
             /\ last' = Called("check_rate_limit", Given(api_key), Anonymous, 0)
    /\ KeyFrame /\ ConcFrame

\* The header values a request may carry.
Presented ==
    {Absent} \cup {Given(s) : s \in {"", "garbage", DemoFreeKey, DemoProKey,
                                     generate_api_key("A"), generate_api_key("B")}}

AuthFrame == UNCHANGED <<now, REQUEST_COUNTS, calls>>

\* main.py:124-130 GET /api/key-info
GetApiKeyInfo ==
    /\ \E api_key \in Presented :
         LET auth == require_api_key(api_key)
         IN  last' = Called("get_api_key_info", api_key, auth,
                            IF auth.status = "ok" THEN 200 ELSE 401)
    /\ AuthFrame /\ KeyFrame /\ ConcFrame

\* What the collaborators of get_forecast answer: the address-keyed slowapi
\* limiter, the coordinate check and the upstream weather client.
ForecastEnv == {"ok", "throttled", "bad_coords", "upstream_error"}

\* main.py:135-173 GET /forecast/{latitude}/{longitude}
GetForecast ==
    /\ \E api_key \in Presented, env \in ForecastEnv :
         LET auth == verify_api_key(api_key)
         IN  last' = Called("get_forecast", api_key, auth,
                            IF auth.status = "InvalidKey" THEN 401
                            ELSE IF env = "throttled" THEN 429
                            ELSE IF env = "bad_coords" THEN 400
                            ELSE IF env = "upstream_error" THEN 500
                            ELSE 200)
    /\ AuthFrame /\ KeyFrame /\ ConcFrame

(* --------------------- concurrent check_rate_limit -------------------- *)
Handlers == 1..MaxHandlers
ConcKey == DemoFreeKey

CanRunPreemptive(h) == TRUE

\* check_rate_limit is a plain function without await (auth.py:132-150) and the
\* handlers are coroutines of one event loop (main.py:291): once a handler is
\* in the call, no other handler runs until it returns.
CanRun(h) == running \in {0, h}

ConcStepFrame ==
    UNCHANGED <<now, API_KEYS, DEMO_KEYS, issued, nIssued, limitAtCreation, calls, last, limit>>

\* auth.py:135-136
ConcEnter(h) ==
    /\ pc[h] = "start" /\ CanRun(h)
    /\ pc' = [pc EXCEPT ![h] = "l138"]
    /\ running' = h
    /\ UNCHANGED REQUEST_COUNTS /\ ConcStepFrame

\* auth.py:138-139
ConcEnsure(h) ==
    /\ pc[h] = "l138" /\ CanRun(h)
    /\ REQUEST_COUNTS' = Put(REQUEST_COUNTS, ConcKey, WindowOf(REQUEST_COUNTS, ConcKey))
    /\ pc' = [pc EXCEPT ![h] = "l142"]
    /\ running' = h
    /\ ConcStepFrame

\* auth.py:142
ConcClean(h) ==
    /\ pc[h] = "l142" /\ CanRun(h)
    /\ REQUEST_COUNTS' = Put(REQUEST_COUNTS, ConcKey, Fresh(REQUEST_COUNTS[ConcKey], now))
    /\ pc' = [pc EXCEPT ![h] = "l145"]
    /\ running' = h
    /\ ConcStepFrame

\* auth.py:145-146
ConcCheck(h) ==
    /\ pc[h] = "l145" /\ CanRun(h)
    /\ IF OverLimit(REQUEST_COUNTS[ConcKey], limit[ConcKey])
       THEN pc' = [pc EXCEPT ![h] = "false"] /\ running' = 0
       ELSE pc' = [pc EXCEPT ![h] = "l149"] /\ running' = h
    /\ UNCHANGED REQUEST_COUNTS /\ ConcStepFrame

\* auth.py:149-150
ConcRecord(h) ==
    /\ pc[h] = "l149" /\ CanRun(h)
    /\ REQUEST_COUNTS' = Put(REQUEST_COUNTS, ConcKey, Append(REQUEST_COUNTS[ConcKey], now))
    /\ pc' = [pc EXCEPT ![h] = "true"]
    /\ running' = 0
    /\ ConcStepFrame

(* --------------------------- specifications -------------------------- *)
InitWith(limits, m) ==
    /\ now = 0
    /\ API_KEYS = <<>>
    /\ DEMO_KEYS = DemoKeysAtImport(0)
    /\ REQUEST_COUNTS = <<>>
    /\ issued = <<>>
    /\ nIssued = 0
    /\ limitAtCreation = <<>>
    /\ calls = <<>>
    /\ last = [op |-> "none", arg |-> Absent, auth |-> Anonymous, http |-> 0,
               before |-> <<>>]
    /\ limit \in limits
    /\ pc = [h \in Handlers |-> IF h <= m THEN "start" ELSE "off"]
    /\ running = 0

\* The key store, the dependencies and the routes, with check_rate_limit
\* called at the largest limit.
Init == InitWith([RLKeys -> {MaxLimit}], 0)
GateCall == CheckRateLimit(MaxGateCalls, GateGaps)
Next ==
    \/ IssueSome
    \/ RegisterApiKey
    \/ GetApiKeyInfo
    \/ GetForecast
    \/ GateCall
Spec == Init /\ [][Next]_vars

\* Issuance alone, at every tier name.
NextIssue == Issue \/ RegisterApiKey
SpecIssue == Init /\ [][NextIssue]_vars

\* The rate limiter alone: calls on a few keys at non-decreasing times.
InitLimiter == InitWith([RLKeys -> Limits], 0)
LimiterCall == CheckRateLimit(MaxCalls, ClockGaps)
NextLimiter == LimiterCall
SpecLimiter == InitLimiter /\ [][NextLimiter]_vars

\* M handlers in check_rate_limit on one key at the same instant.
InitConc == \E m \in Handlers : InitWith([RLKeys -> Limits], m)
NextConc ==
    \E h \in Handlers :
        \/ ConcEnter(h)
        \/ ConcEnsure(h)
        \/ ConcClean(h)
        \/ ConcCheck(h)
        \/ ConcRecord(h)
SpecConc == InitConc /\ [][NextConc]_vars

(* ------------------------- claims: rate limiter ----------------------- *)
\* The calls made on key k, in order.
KeyCalls(k) == SelectSeq(calls, LAMBDA c : c.key = k)

\* The admitted calls on k timed in the 60 consecutive seconds s, s+1, ..., s+59.
AdmittedIn(k, s) ==
    {i \in DOMAIN calls : /\ calls[i].key = k /\ calls[i].ok
                          /\ s <= calls[i].t /\ calls[i].t < s + WindowSeconds}

\* C1: for a key checked with a fixed limit L at non-decreasing times, any span
\* of 60 consecutive seconds holds at most L admitted calls. A span holding an
\* admitted call holds no more of them than the span that starts at its first
\* admitted call, so the spans starting at a call's time are the ones to count.
C1_NoBurstInAnySpan ==
    \A k \in RLKeys : \A i \in DOMAIN calls :
        Cardinality(AdmittedIn(k, calls[i].t)) <= limit[k]

\* C1 witness: a call admitted, one denied 59 seconds later and one admitted
\* exactly 60 seconds after the first, on a key whose limit is 1.
C1_Witness ==
    \E k \in RLKeys :
        /\ limit[k] = 1
        /\ \E i, j, l \in DOMAIN KeyCalls(k) :
             LET kc == KeyCalls(k)
             IN  /\ i < j /\ j < l
                 /\ kc[i].ok /\ ~kc[j].ok /\ kc[l].ok
                 /\ kc[j].t = kc[i].t + 59
                 /\ kc[l].t = kc[i].t + WindowSeconds

\* The first limit[k] calls on k were all made in the second of the first one.
Burst(k) ==
    LET kc == KeyCalls(k)
    IN  /\ Len(kc) >= limit[k]
        /\ \A i \in 1..limit[k] : kc[i].t = kc[1].t

\* C3 as stated: after L calls in one second on a key with limit L > 0, all
\* admitted, every further call less than 60 seconds after the first is denied,
\* and the next call once the clock is past 60 seconds from the first is admitted.
C3_AsStated ==
    \A k \in RLKeys :
        LET kc == KeyCalls(k)
        IN  limit[k] > 0 =>
              /\ \A i \in DOMAIN kc :
                   (i <= limit[k] /\ kc[i].t = kc[1].t) => kc[i].ok
              /\ Burst(k) =>
                   \A i \in DOMAIN kc :
                       i > limit[k] =>
                         /\ kc[i].t < kc[1].t + WindowSeconds => ~kc[i].ok
                         /\ (/\ kc[i].t > kc[1].t + WindowSeconds
                             /\ kc[i - 1].t <= kc[1].t + WindowSeconds) => kc[i].ok

\* C3 amended: as above, but the call admitted again is the first one made 60
\* seconds or more after the first call (a call made exactly 60 seconds after
\* it is admitted too, and takes a place in the window).
C3_BurstThenDeniedThenAdmitted ==
    \A k \in RLKeys :
        LET kc == KeyCalls(k)
        IN  limit[k] > 0 =>
              /\ \A i \in DOMAIN kc :
                   (i <= limit[k] /\ kc[i].t = kc[1].t) => kc[i].ok
              /\ Burst(k) =>
                   \A i \in DOMAIN kc :
                       i > limit[k] =>
                         /\ kc[i].t < kc[1].t + WindowSeconds => ~kc[i].ok
                         /\ (/\ kc[i].t >= kc[1].t + WindowSeconds
                             /\ kc[i - 1].t < kc[1].t + WindowSeconds) => kc[i].ok

\* C3 witness: limit 2, two calls in one second, a third denied within the
\* minute, and a fourth admitted 60 seconds or more after the first.
C3_Witness ==
    \E k \in RLKeys :
        LET kc == KeyCalls(k)
        IN  /\ limit[k] = 2 /\ Len(kc) = 4
            /\ kc[2].t = kc[1].t /\ kc[1].ok /\ kc[2].ok
            /\ kc[3].t < kc[1].t + WindowSeconds /\ ~kc[3].ok
            /\ kc[4].t >= kc[1].t + WindowSeconds /\ kc[4].ok

\* C10: a key always checked with limit L never has more than L timestamps
\* in its window.
C10_WindowWithinLimit ==
    \A k \in DOMAIN REQUEST_COUNTS : Len(REQUEST_COUNTS[k]) <= limit[k]

\* C10 witness: a window filled to its limit of 2, after a denied call.
C10_Witness ==
    \E k \in DOMAIN REQUEST_COUNTS :
        /\ limit[k] = 2 /\ Len(REQUEST_COUNTS[k]) = 2
        /\ \E i \in DOMAIN calls : calls[i].key = k /\ ~calls[i].ok

(* ---------------------- claims: concurrent handlers ------------------- *)
InCall == {h \in Handlers : pc[h] # "off"}
Returned(b) == {h \in Handlers : pc[h] = b}
AllReturned == \A h \in InCall : pc[h] \in {"true", "false"}
Min(a, b) == IF a <= b THEN a ELSE b

TableAsStated(tier) ==
    CASE tier = "free" -> 10
      [] tier = "starter" -> 60
      [] tier = "pro" -> 300
      [] tier = "enterprise" -> 1000
      [] tier = "demo-free" -> 10
      [] tier = "demo-pro" -> 100
      [] OTHER -> 10

\* The same table without the two demo rows.
TableOfFourTiers(tier) ==
    CASE tier = "free" -> 10
      [] tier = "starter" -> 60
      [] tier = "pro" -> 300
      [] tier = "enterprise" -> 1000
      [] OTHER -> 10

\* C5 as stated: every record create_api_key returns carries the limit of its
\* tier: free 10, starter 60, pro 300, enterprise 1000, demo-free 10,
\* demo-pro 100, and 10 for any other tier name.
C5_AsStated ==
    \A s \in DOMAIN issued : issued[s].rate_limit = TableAsStated(issued[s].tier)

\* C5 amended: free 10, starter 60, pro 300, enterprise 1000, and 10 for every
\* other tier name, demo-free and demo-pro among them.
C5_TierLimits ==
    \A s \in DOMAIN issued : issued[s].rate_limit = TableOfFourTiers(issued[s].tier)

\* C5 witness: a key issued at tier demo-pro got 10, another at tier pro got 300.
C5_Witness ==
    \E s, u \in DOMAIN issued :
        /\ issued[s].tier = "demo-pro" /\ issued[s].rate_limit = 10
        /\ issued[u].tier = "pro" /\ issued[u].rate_limit = 300

Resolvable(s) == s \in DOMAIN DEMO_KEYS \cup DOMAIN API_KEYS

\* The record written for secret s: by the import for a demo key, by the
\* latest create_api_key that returned s otherwise.
StoredAtIssuance(s) ==
    IF s \in {DemoFreeKey, DemoProKey} THEN DemoKeysAtImport(0)[s] ELSE issued[s]

SameMetadata(info, rec) ==
    /\ info # None
    /\ info.name = rec.name /\ info.tier = rec.tier
    /\ info.rate_limit = rec.rate_limit /\ info.created = rec.created

\* C4: a request served for a resolved key was preceded by a check_rate_limit
\* call on that key, at the key's own rate_limit, that returned True.
C4_AdmitBeforeServe ==
    (last.op \in {"get_forecast", "get_api_key_info"}
        /\ last.http = 200 /\ last.auth.status = "ok") =>
      \E i \in DOMAIN calls :
          /\ calls[i].key = last.arg.value /\ calls[i].ok
          /\ calls[i].limit = last.auth.info.rate_limit

\* C6: in every state both demo secrets resolve, to the records of the import,
\* the free one with limit 10 and the pro one with limit 100.
C6_DemoKeysAlwaysResolve ==
    /\ get_key_info(DemoFreeKey) # None
    /\ get_key_info(DemoFreeKey).rate_limit = 10
    /\ get_key_info(DemoFreeKey) = DemoKeysAtImport(0)[DemoFreeKey]
    /\ get_key_info(DemoProKey) # None
    /\ get_key_info(DemoProKey).rate_limit = 100
    /\ get_key_info(DemoProKey) = DemoKeysAtImport(0)[DemoProKey]

\* C6 witness: keys were issued, a rate-limit call was admitted on the free demo
\* key, and the key-info route has just resolved the pro demo key.
C6_Witness ==
    /\ nIssued = MaxIssues
    /\ \E i \in DOMAIN calls : calls[i].key = DemoFreeKey /\ calls[i].ok
    /\ last.op = "get_api_key_info" /\ last.arg = Given(DemoProKey)
    /\ last.auth.status = "ok" /\ last.auth.info.rate_limit = 100

C8_AsStated ==
    last.op = "get_forecast" =>
      /\ ~last.arg.present => last.auth = Anonymous
      /\ (last.arg.present /\ ~Resolvable(last.arg.value)) => last.auth = InvalidKey
      /\ (last.arg.present /\ Resolvable(last.arg.value)) =>
           /\ last.auth.status = "ok"
           /\ SameMetadata(last.auth.info, StoredAtIssuance(last.arg.value))
      /\ REQUEST_COUNTS = last.before

\* C8 amended: the anonymous result for an absent or empty key, InvalidKey for
\* a non-empty key that does not resolve, the matched record otherwise; the
\* windows are those the call started from.
C8_VerifyClassifies ==
    last.op = "get_forecast" =>
      /\ (~last.arg.present \/ last.arg.value = "") => last.auth = Anonymous
      /\ (last.arg.present /\ last.arg.value # "" /\ ~Resolvable(last.arg.value)) =>
           last.auth = InvalidKey /\ last.http = 401
      /\ (last.arg.present /\ Resolvable(last.arg.value)) =>
           /\ last.auth.status = "ok"
           /\ SameMetadata(last.auth.info, StoredAtIssuance(last.arg.value))
      /\ REQUEST_COUNTS = last.before

\* C8 witness: an empty key has just been served as anonymous while a window
\* holds a timestamp.
C8_Witness ==
    /\ last.op = "get_forecast" /\ last.arg = Given("")
    /\ last.auth = Anonymous /\ last.http = 200
    /\ \E k \in DOMAIN REQUEST_COUNTS : Len(REQUEST_COUNTS[k]) > 0

(* -------------------- claims: one check_rate_limit call --------------- *)
\* The call check_rate_limit has just returned from, and the timestamps of its
\* key that were less than 60 seconds old when it was made.
LastCall == calls[Len(calls)]
SeenBefore(k) == k \in DOMAIN last.before
HeldBefore(k) == IF SeenBefore(k) THEN last.before[k] ELSE <<>>
FreshBefore(c) == SelectSeq(HeldBefore(c.key), LAMBDA x : c.t - x < WindowSeconds)

\* C11: check_rate_limit(k, limit) at time t returns False exactly when k holds
\* limit or more timestamps less than 60 seconds old, and then t is not
\* recorded: the window it leaves is those fresh timestamps. A limit of 0
\* denies every call; the first call on a key never seen, with limit > 0, is
\* admitted. No other key's window is touched.
C11_DeniedExactlyAtLimit ==
    last.op = "check_rate_limit" =>
      LET c == LastCall
      IN  /\ ~c.ok <=> Len(FreshBefore(c)) >= c.limit
          /\ ~c.ok => REQUEST_COUNTS[c.key] = FreshBefore(c)
          /\ c.limit = 0 => ~c.ok
          /\ (~SeenBefore(c.key) /\ c.limit > 0) => c.ok
          /\ \A k \in DOMAIN REQUEST_COUNTS \ {c.key} :
                 SeenBefore(k) /\ REQUEST_COUNTS[k] = last.before[k]

\* C11 witness: a call on a key with limit 2 has just been denied a second or
\* more after the two admitted ones, and the window still holds just those two.
C11_Witness ==
    /\ last.op = "check_rate_limit"
    /\ ~LastCall.ok /\ LastCall.limit = 2
    /\ Len(REQUEST_COUNTS[LastCall.key]) = 2
    /\ \A i \in 1..2 : REQUEST_COUNTS[LastCall.key][i] < LastCall.t

\* C12: right after a check_rate_limit call on k at time t, the timestamps
\* held for k are in non-decreasing order and each is less than 60 seconds
\* older than t; one recorded exactly 60 seconds before t is gone, and it did
\* not count against the limit: with fewer than limit younger ones, the call
\* was admitted.
C12_WindowOrderedAndFresh ==
    last.op = "check_rate_limit" =>
      LET c == LastCall
          w == REQUEST_COUNTS[c.key]
      IN  /\ \A i, j \in DOMAIN w : i < j => w[i] <= w[j]
          /\ \A i \in DOMAIN w : c.t - w[i] < WindowSeconds
          /\ \A i \in DOMAIN w : w[i] # c.t - WindowSeconds
          /\ Cardinality({i \in DOMAIN HeldBefore(c.key) :
                              HeldBefore(c.key)[i] > c.t - WindowSeconds}) < c.limit
               => c.ok

\* C12 witness: a key with limit 2 held a timestamp exactly 60 seconds old and a
\* younger one; the call dropped the old one, was admitted, and left the
\* younger one followed by its own time.
C12_Witness ==
    /\ last.op = "check_rate_limit"
    /\ LastCall.limit = 2 /\ LastCall.ok
    /\ Len(HeldBefore(LastCall.key)) = 2
    /\ HeldBefore(LastCall.key)[1] = LastCall.t - WindowSeconds
    /\ HeldBefore(LastCall.key)[2] > LastCall.t - WindowSeconds
    /\ REQUEST_COUNTS[LastCall.key] = <<HeldBefore(LastCall.key)[2], LastCall.t>>
    /\ HeldBefore(LastCall.key)[2] < LastCall.t

====
